---- MODULE Spec2Model ----
(***************************************************************************)
(* Model of the month-calendar widget of src/pages/index.tsx: the Home     *)
(* component's state (view month, selected date), its handlers (prevMonth, *)
(* nextMonth, goToday, cell click, copySelected), the 42-cell grid         *)
(* generator and the URL configuration.                                    *)
(*                                                                         *)
(* Conventions.                                                            *)
(*  - A JavaScript string is a sequence of one-character strings.          *)
(*  - A JavaScript number that may be NaN is a sequence of length <= 1:    *)
(*    <<n>> is the number n, <<>> is NaN.  null is <<>> as well where the  *)
(*    code tests a value for being absent (string | null, Date | null).    *)
(*  - A Date is its time value counted in whole days since 1970-01-01, or  *)
(*    the Invalid Date.  The time of day and the time zone are left out:   *)
(*    the code only reads getFullYear/getMonth/getDate/getDay.             *)
(*                                                                         *)
(* Specifications.                                                         *)
(*  - Spec: navigation, selection, goToday and the clock, from views near  *)
(*    the mount date and near the ends of what navigation can reach (year  *)
(*    100, where the two-digit-year rule of new Date starts to apply, and  *)
(*    September 275760, the last month a Date can hold).                   *)
(*  - SpecCopy: the same handlers with the Copy button, the pending        *)
(*    writeText promises and the clipboard.                                *)
(*  - SpecConfig: the first render, for a range of query strings.          *)
(***************************************************************************)
EXTENDS Integers, Sequences, FiniteSets, TLC

VARIABLES
    search,     \* the URL query parameters the component was mounted with
    cfg,        \* weekStart, width, dowStyle computed from them at render
    today,      \* useMemo(() => new Date(), [])
    now,        \* the system clock (what new Date() returns)
    view,       \* useState: first day of the displayed month
    selected,   \* useState: the selected date
    writes,     \* navigator.clipboard.writeText promises still pending
    clipboard,  \* the system clipboard: <<>> (nothing copied yet) or <<text>>
    textareas,  \* temporary <textarea> elements attached to document.body
    hasClipboard, \* whether the browser offers navigator.clipboard
    copies,     \* log: one record per copySelected call
    hist,       \* log: the last handler that ran and the state it ran in
    screen      \* the month and the date shown, as numbers (read from the state)

vars == <<search, cfg, today, now, view, selected, writes, clipboard,
          textareas, hasClipboard, copies, hist, screen>>

----------------------------------------------------------------------------
(* JavaScript numbers and strings                                          *)

NaN == <<>>
Null == <<>>
Num(n) == <<n>>
IsNaN(x) == x = <<>>
Val(x) == x[1]

\* a + k, NaN when a is NaN
JsAdd(a, k) == IF IsNaN(a) THEN NaN ELSE Num(Val(a) + k)
\* a % k for a >= 0
JsMod(a, k) == IF IsNaN(a) THEN NaN ELSE Num(Val(a) % k)
\* Math.min / Math.max: NaN when either argument is NaN
MathMin(a, b) == IF IsNaN(a) \/ IsNaN(b) THEN NaN
                 ELSE IF Val(a) < Val(b) THEN a ELSE b
MathMax(a, b) == IF IsNaN(a) \/ IsNaN(b) THEN NaN
                 ELSE IF Val(a) > Val(b) THEN a ELSE b

DigitChars == <<"0", "1", "2", "3", "4", "5", "6", "7", "8", "9">>
IsDigit(c) == \E i \in 1..10 : DigitChars[i] = c
DigitVal(c) == (CHOOSE i \in 1..10 : DigitChars[i] = c) - 1

RECURSIVE NatToString(_)
NatToString(n) ==
    IF n < 10 THEN <<DigitChars[n + 1]>>
    ELSE Append(NatToString(n \div 10), DigitChars[(n % 10) + 1])

\* String(n) for an integer n
String(n) == IF n < 0 THEN <<"-">> \o NatToString(-n) ELSE NatToString(n)

\* s.padStart(len, "0")
RECURSIVE padStart(_, _)
padStart(s, len) == IF Len(s) >= len THEN s ELSE padStart(<<"0">> \o s, len)

pad2(n) == padStart(String(n), 2)

----------------------------------------------------------------------------
(* Date: the ECMAScript time-value arithmetic behind new Date(y, m, d) and *)
(* the getters.                                                            *)

\* the largest day number a time value can hold (8.64e15 ms)
MaxDay == 100000 * 1000

InvalidDate == [nan |-> TRUE, t |-> 0]
DateOfDay(t) == [nan |-> FALSE, t |-> t]

\* day number of January 1st of year y
DayFromYear(y) ==
    365 * (y - 1970) + ((y - 1969) \div 4) - ((y - 1901) \div 100)
        + ((y - 1601) \div 400)

InLeapYear(y) == (y % 4 = 0) /\ ((y % 100 # 0) \/ (y % 400 = 0))

\* days of the year before month m (0-based)
MonthStart(y, m) ==
    <<0, 31, 59, 90, 120, 151, 181, 212, 243, 273, 304, 334>>[m + 1]
        + (IF InLeapYear(y) /\ m >= 2 THEN 1 ELSE 0)

\* MakeDay: months outside 0..11 carry into the year, days outside the
\* month carry into the neighbouring months
MakeDay(year, month, date) ==
    LET ym == year + (month \div 12)
        mn == month % 12
    IN  DayFromYear(ym) + MonthStart(ym, mn) + date - 1

YearFromTime(t) ==
    LET est == 1970 + (t \div 146097) * 400 + (((t % 146097) * 400) \div 146097)
    IN  CHOOSE y \in (est - 1)..(est + 1) :
            DayFromYear(y) <= t /\ t < DayFromYear(y + 1)

\* the month (0-based) holding day dayInYear (0-based) of a year
MonthOfDay(dayInYear, leap) ==
    IF dayInYear < 31 THEN 0
    ELSE IF dayInYear < 59 + leap THEN 1
    ELSE IF dayInYear < 90 + leap THEN 2
    ELSE IF dayInYear < 120 + leap THEN 3
    ELSE IF dayInYear < 151 + leap THEN 4
    ELSE IF dayInYear < 181 + leap THEN 5
    ELSE IF dayInYear < 212 + leap THEN 6
    ELSE IF dayInYear < 243 + leap THEN 7
    ELSE IF dayInYear < 273 + leap THEN 8
    ELSE IF dayInYear < 304 + leap THEN 9
    ELSE IF dayInYear < 334 + leap THEN 10
    ELSE 11

MonthFromTime(t) ==
    LET y == YearFromTime(t)
    IN  MonthOfDay(t - DayFromYear(y), IF InLeapYear(y) THEN 1 ELSE 0)

DateFromTime(t) ==
    LET y == YearFromTime(t)
        dayInYear == t - DayFromYear(y)
        m == MonthOfDay(dayInYear, IF InLeapYear(y) THEN 1 ELSE 0)
    IN  dayInYear - MonthStart(y, m) + 1

\* 1970-01-01 was a Thursday
WeekDay(t) == (t + 4) % 7

\* new Date(y, m, d): a year 0..99 means 1900..1999; a NaN argument or a
\* time value out of range gives the Invalid Date
NewDate(y, m, d) ==
    IF IsNaN(y) \/ IsNaN(m) \/ IsNaN(d) THEN InvalidDate
    ELSE LET yr == IF 0 <= Val(y) /\ Val(y) <= 99 THEN 1900 + Val(y) ELSE Val(y)
             day == MakeDay(yr, Val(m), Val(d))
         IN  IF day > MaxDay \/ day < -MaxDay THEN InvalidDate
             ELSE DateOfDay(day)

getFullYear(dt) == IF dt.nan THEN NaN ELSE Num(YearFromTime(dt.t))
getMonth(dt) == IF dt.nan THEN NaN ELSE Num(MonthFromTime(dt.t))
getDate(dt) == IF dt.nan THEN NaN ELSE Num(DateFromTime(dt.t))
getDay(dt) == IF dt.nan THEN NaN ELSE Num(WeekDay(dt.t))

----------------------------------------------------------------------------
(* formatYMD, sameDay                                                       *)

formatYMD(d) ==
    String(Val(getFullYear(d))) \o <<"-">> \o pad2(Val(getMonth(d)) + 1)
        \o <<"-">> \o pad2(Val(getDate(d)))

sameDay(a, b) ==
    /\ getFullYear(a) = getFullYear(b) /\ ~a.nan /\ ~b.nan
    /\ getMonth(a) = getMonth(b)
    /\ getDate(a) = getDate(b)

----------------------------------------------------------------------------
(* URL configuration (Home, lines 38-46)                                   *)

IsSpace(c) == c = " "

RECURSIVE trimStart(_)
trimStart(s) == IF s # <<>> /\ IsSpace(Head(s)) THEN trimStart(Tail(s)) ELSE s

RECURSIVE trimEnd(_)
trimEnd(s) ==
    IF s # <<>> /\ IsSpace(s[Len(s)]) THEN trimEnd(SubSeq(s, 1, Len(s) - 1))
    ELSE s

trim(s) == trimEnd(trimStart(s))

UpperChars == <<"M", "O", "N", "S", "A", "R", "W", "H", "T">>
LowerChars == <<"m", "o", "n", "s", "a", "r", "w", "h", "t">>
lowerChar(c) ==
    IF \E i \in 1..Len(UpperChars) : UpperChars[i] = c
    THEN LowerChars[CHOOSE i \in 1..Len(UpperChars) : UpperChars[i] = c]
    ELSE c
toLowerCase(s) == [i \in 1..Len(s) |-> lowerChar(s[i])]

\* params.get(key): the parameter's value, or null when it is absent (with
\* params itself null, on the server, every key is absent)
paramsGet(params, key) == params[key]

getParam(params, key) ==
    LET v == paramsGet(params, key)
    IN  IF v # Null /\ Len(trim(Val(v))) > 0 THEN <<trim(Val(v))>> ELSE Null

clampWeekStart(v) ==
    IF v # Null /\ toLowerCase(Val(v)) = <<"m", "o", "n">> THEN 1 ELSE 0

RECURSIVE DigitsValue(_)
DigitsValue(s) ==
    IF s = <<>> THEN 0
    ELSE 10 * DigitsValue(SubSeq(s, 1, Len(s) - 1)) + DigitVal(s[Len(s)])

AllDigits(s) == s # <<>> /\ \A i \in 1..Len(s) : IsDigit(s[i])

\* Number(s) for a string of digits, signs, spaces and letters: outer white
\* space is dropped, the empty string is 0, an optionally signed run of
\* digits is its value, and anything else is NaN
ToNumber(s) ==
    LET t == trim(s)
    IN  IF t = <<>> THEN Num(0)
        ELSE IF AllDigits(t) THEN Num(DigitsValue(t))
        ELSE IF Head(t) = "-" /\ AllDigits(Tail(t)) THEN Num(-DigitsValue(Tail(t)))
        ELSE IF Head(t) = "+" /\ AllDigits(Tail(t)) THEN Num(DigitsValue(Tail(t)))
        ELSE NaN

MinWidth == 220
MaxWidth == 420
DefaultWidth == 280

\* Number(getParam(params, "w") || 280), clamped
widthOf(params) ==
    LET g == getParam(params, "w")
        n == IF g = Null THEN Num(DefaultWidth) ELSE ToNumber(Val(g))
    IN  MathMax(Num(MinWidth), MathMin(Num(MaxWidth), n))

dowStyleOf(params) ==
    LET g == getParam(params, "dow")
    IN  toLowerCase(IF g = Null THEN <<"s", "h", "o", "r", "t">> ELSE Val(g))

weekStartOf(params) == clampWeekStart(getParam(params, "week"))

Config(params) ==
    [weekStart |-> weekStartOf(params),
     width |-> widthOf(params),
     dowStyle |-> dowStyleOf(params)]

baseShortSunFirst == <<"Sun", "Mon", "Tue", "Wed", "Thu", "Fri", "Sat">>
baseNarrowSunFirst == <<"S", "M", "T", "W", "T", "F", "S">>

dowLabels(weekStart, dowStyle) ==
    LET base == IF dowStyle = <<"n", "a", "r", "r", "o", "w">>
                THEN baseNarrowSunFirst ELSE baseShortSunFirst
    IN  IF weekStart = 1 THEN Tail(base) \o <<base[1]>> ELSE base

----------------------------------------------------------------------------
(* The grid generator (cells, lines 69-100)                                *)

GridCells == 42

blankCell == [date |-> Null, label |-> <<>>, inMonth |-> FALSE]

\* dayCell with a seeded fault: the date is built one day off its label
dayCell_offByOne(y, m, d) ==
    [date |-> <<NewDate(y, m, Num(d + 1))>>, label |-> String(d), inMonth |-> TRUE]

dayCell(y, m, d) ==
    [date |-> <<NewDate(y, m, Num(d))>>, label |-> String(d), inMonth |-> TRUE]

\* let leading = first.getDay(); if (weekStart === 1) leading = (leading + 6) % 7
leadingOf(first, weekStart) ==
    IF weekStart = 1 THEN JsMod(JsAdd(getDay(first), 6), 7) ELSE getDay(first)

\* for (let i = 0; i < n; i++): no iteration when n is NaN
LoopCount(n) == IF IsNaN(n) \/ Val(n) < 0 THEN 0 ELSE Val(n)

\* padCells with a seeded fault: while (result.length <= 42)
padCells_offByOne(result) ==
    IF Len(result) <= GridCells
    THEN result \o [i \in 1..(GridCells + 1 - Len(result)) |-> blankCell]
    ELSE result

\* while (result.length < 42) result.push(blank)
padCells(result) ==
    IF Len(result) < GridCells
    THEN result \o [i \in 1..(GridCells - Len(result)) |-> blankCell]
    ELSE result

cells(v, weekStart) ==
    LET y == getFullYear(v)
        m == getMonth(v)
        first == NewDate(y, m, Num(1))
        last == NewDate(y, JsAdd(m, 1), Num(0))
        daysInMonth == getDate(last)
        leading == leadingOf(first, weekStart)
        blanks == [i \in 1..LoopCount(leading) |-> blankCell]
        days == [d \in 1..LoopCount(daysInMonth) |-> dayCell(y, m, d)]
    IN  padCells(blanks \o days)

----------------------------------------------------------------------------
(* Handlers (lines 102-112, 173)                                           *)

prevMonth(v) == NewDate(getFullYear(v), JsAdd(getMonth(v), -1), Num(1))
nextMonth(v) == NewDate(getFullYear(v), JsAdd(getMonth(v), 1), Num(1))

\* goToday: setView(new Date(t.getFullYear(), t.getMonth(), 1)); setSelected(t)
goTodayView(t) == NewDate(getFullYear(t), getMonth(t), Num(1))
\* goTodaySelected with a seeded fault: the memoised today instead of a
\* fresh new Date()
goTodaySelected_memo(t) == today

goTodaySelected(t) == t

\* onClick={() => c.date && setSelected(c.date)}
cellOnClick(c, sel) == IF c.date # Null THEN Val(c.date) ELSE sel

----------------------------------------------------------------------------
(* copySelected (lines 114-126)                                             *)

\* document.execCommand("copy") on the selected textarea: the text reaches
\* the clipboard when the call reports success (ok), and nothing changes
\* when it reports failure; the code does not read the result
execCommandCopy(text, clip, ok) == IF ok THEN <<text>> ELSE clip

\* fallbackTextareas with a seeded fault: the textarea is never removed
fallbackTextareas_leak(n) == n + 1

\* document.body.appendChild(ta) ... document.body.removeChild(ta)
fallbackTextareas(n) == (n + 1) - 1

\* the record of a copySelected call whose writeText promise is pending
pendingCopy(sel) ==
    [sel |-> sel, text |-> formatYMD(sel), state |-> "pending",
     rejected |-> FALSE, copied |-> FALSE]

\* await navigator.clipboard.writeText(text) fulfilled: no catch
resolvedCopy(c) == [c EXCEPT !.state = "api", !.copied = TRUE]

\* the catch block ran; rejected tells a rejected promise from a missing
\* navigator.clipboard
fallbackCopy(c, rejected, ok) ==
    [c EXCEPT !.state = "fallback", !.rejected = rejected, !.copied = ok]

----------------------------------------------------------------------------
(* Bounds of the model                                                      *)

\* months a navigation may move away from a starting view
NavSpan == 3
\* days the clock may advance after the component is mounted
MaxTicks == 2
\* calls of copySelected in one run
MaxCopies == 2
\* length of the ?w= values tried
MaxLen == 3

\* the day the component is mounted: 2023-12-30
TodayDate == NewDate(Num(2023), Num(11), Num(30))

\* Views the model starts from.  Each is the first day of a month that
\* prevMonth/nextMonth clicks reach from the initial view without touching
\* the selection: every step between them and 2023 stays in years >= 100.
StartYM == {<<2023, 11>>, <<100, 1>>, <<1000, 1>>, <<275760, 6>>}
StartViews == {NewDate(Num(a[1]), Num(a[2]), Num(1)) : a \in StartYM}

RECURSIVE NavClosure(_, _)
NavClosure(S, n) ==
    IF n = 0 THEN S
    ELSE NavClosure(S \cup {prevMonth(v) : v \in S} \cup {nextMonth(v) : v \in S},
                    n - 1)

ViewRange == NavClosure(StartViews, NavSpan)

\* cells the model clicks (0-based index in the grid)
ClickCells == {0, 9, 33, 41}

Str(s) == <<s>>
NoParams == [week |-> Null, w |-> Null, dow |-> Null]
Searches == {NoParams, [NoParams EXCEPT !.week = Str(<<" ", "M", "o", "n">>)]}

\* the narrower ranges of the runs that follow the clipboard
CopyViews == {goTodayView(TodayDate)}
CopyRange == CopyViews \cup {nextMonth(v) : v \in CopyViews}
CopyClickCells == {9, 41}

\* query strings of the configuration runs
RECURSIVE StringsUpTo(_, _)
StringsUpTo(A, n) ==
    IF n = 0 THEN {<<>>}
    ELSE LET S == StringsUpTo(A, n - 1)
         IN  S \cup {Append(s, c) : s \in S, c \in A}

WInputs ==
    {Null} \cup {Str(s) : s \in StringsUpTo({"3", "9", "-", " ", "x"}, MaxLen)}
WeekInputs ==
    {Null, Str(<<>>), Str(<<" ">>), Str(<<"m", "o", "n">>), Str(<<"M", "O", "N">>),
     Str(<<" ", "M", "o", "n", " ">>), Str(<<"s", "u", "n">>),
     Str(<<"m", "o", "n", "d", "a", "y">>), Str(<<"m", "o">>)}
DowInputs ==
    {Null, Str(<<"s", "h", "o", "r", "t">>), Str(<<"n", "a", "r", "r", "o", "w">>),
     Str(<<"N", "a", "r", "r", "o", "w", " ">>), Str(<<"x">>)}
ConfigSearches ==
    {[week |-> wk, w |-> w, dow |-> dw] :
        wk \in WeekInputs, w \in WInputs, dw \in DowInputs}

----------------------------------------------------------------------------
(* The state machine                                                        *)

Unrendered ==
    [rendered |-> FALSE, weekStart |-> 0, width |-> NaN, dowStyle |-> <<>>]
Rendered(params) ==
    [rendered |-> TRUE, weekStart |-> Config(params).weekStart,
     width |-> Config(params).width, dowStyle |-> Config(params).dowStyle]

\* the dates on screen, as numbers: the month of the title and the date of
\* the footer pill (1-based months); <<>> for the Invalid Date
Screen(v, sel) ==
    [month |-> IF v.nan THEN <<>>
               ELSE <<YearFromTime(v.t), MonthFromTime(v.t) + 1>>,
     pill |-> <<YearFromTime(sel.t), MonthFromTime(sel.t) + 1, DateFromTime(sel.t)>>]

\* the component mounted with the query parameters of S, navigated to a
\* view of V
InitUI(S, V, rendered) ==
    /\ search \in S
    /\ cfg = IF rendered THEN Rendered(search) ELSE Unrendered
    /\ today = TodayDate
    /\ now = today
    /\ view \in V
    /\ selected = today
    /\ hasClipboard \in BOOLEAN
    /\ writes = {}
    /\ clipboard = <<>>
    /\ textareas = 0
    /\ copies = <<>>
    /\ hist = [op |-> "mount", view |-> view, selected |-> selected,
               now |-> now, clipboard |-> clipboard, idx |-> -1]
    /\ screen = Screen(view, selected)

\* hist: the handler that runs, with the view, the selection, the clock and
\* the clipboard it runs in
Log(op, idx) ==
    [op |-> op, view |-> view, selected |-> selected, now |-> now,
     clipboard |-> clipboard, idx |-> idx]

envVars == <<search, cfg, today, now, hasClipboard>>
copyVars == <<writes, clipboard, textareas, copies>>

\* Home's body up to line 46: the configuration is read from the URL
Render ==
    /\ ~cfg.rendered
    /\ cfg' = Rendered(search)
    /\ UNCHANGED <<search, today, now, hasClipboard, view, selected, copyVars,
                   hist, screen>>

PrevMonth(R) ==
    /\ cfg.rendered
    /\ prevMonth(view) \in R
    /\ view' = prevMonth(view)
    /\ hist' = Log("prevMonth", -1)
    /\ screen' = Screen(view', selected)
    /\ UNCHANGED <<envVars, selected, copyVars>>

NextMonth(R) ==
    /\ cfg.rendered
    /\ nextMonth(view) \in R
    /\ view' = nextMonth(view)
    /\ hist' = Log("nextMonth", -1)
    /\ screen' = Screen(view', selected)
    /\ UNCHANGED <<envVars, selected, copyVars>>

GoToday ==
    /\ cfg.rendered
    /\ view' = goTodayView(now)
    /\ selected' = goTodaySelected(now)
    /\ hist' = Log("goToday", -1)
    /\ screen' = Screen(view', selected')
    /\ UNCHANGED <<envVars, copyVars>>

\* a click on one of the cells I of the rendered grid
ClickCell(I) ==
    /\ cfg.rendered
    /\ LET grid == cells(view, cfg.weekStart)
       IN  \E idx \in I :
              /\ selected' = cellOnClick(grid[idx + 1], selected)
              /\ hist' = Log("click", idx)
    /\ screen' = Screen(view, selected')
    /\ UNCHANGED <<envVars, view, copyVars>>

\* the system clock passes midnight
Tick ==
    /\ now.t < today.t + MaxTicks
    /\ now' = DateOfDay(now.t + 1)
    /\ UNCHANGED <<search, cfg, today, hasClipboard, view, selected, copyVars,
                   hist, screen>>

\* a click on Copy: the text is taken from the selection now; the write is
\* started, or, without navigator.clipboard, the catch block runs at once
CopySelected ==
    /\ cfg.rendered
    /\ Len(copies) < MaxCopies
    /\ LET c == pendingCopy(selected)
           id == Len(copies) + 1
       IN  IF hasClipboard
           THEN /\ writes' = writes \cup {id}
                /\ copies' = Append(copies, c)
                /\ UNCHANGED <<clipboard, textareas>>
           ELSE \E ok \in BOOLEAN :
                /\ clipboard' = execCommandCopy(c.text, clipboard, ok)
                /\ textareas' = fallbackTextareas(textareas)
                /\ copies' = Append(copies, fallbackCopy(c, FALSE, ok))
                /\ UNCHANGED writes
    /\ hist' = Log("copy", Len(copies) + 1)
    /\ UNCHANGED <<envVars, view, selected, screen>>

\* the browser fulfils a pending writeText: the text is on the clipboard
WriteResolved(id) ==
    /\ id \in writes
    /\ writes' = writes \ {id}
    /\ clipboard' = <<copies[id].text>>
    /\ copies' = [copies EXCEPT ![id] = resolvedCopy(@)]
    /\ hist' = Log("writeResolved", id)
    /\ UNCHANGED <<envVars, view, selected, textareas, screen>>

\* the browser rejects a pending writeText: the catch block runs
WriteRejected(id) ==
    /\ id \in writes
    /\ writes' = writes \ {id}
    /\ \E ok \in BOOLEAN :
          /\ clipboard' = execCommandCopy(copies[id].text, clipboard, ok)
          /\ copies' = [copies EXCEPT ![id] = fallbackCopy(@, TRUE, ok)]
    /\ textareas' = fallbackTextareas(textareas)
    /\ hist' = Log("writeRejected", id)
    /\ UNCHANGED <<envVars, view, selected, screen>>

\* navigation and selection; the Copy button, which touches neither the
\* view nor the selection, is followed in SpecCopy
Next ==
    \/ PrevMonth(ViewRange)
    \/ NextMonth(ViewRange)
    \/ GoToday
    \/ ClickCell(ClickCells)
    \/ Tick

Init == InitUI(Searches, StartViews, TRUE) /\ hasClipboard

Spec == Init /\ [][Next]_vars

\* the same handlers with the Copy button and the clipboard, around the
\* month of the mount
NextCopy ==
    \/ PrevMonth(CopyRange)
    \/ NextMonth(CopyRange)
    \/ GoToday
    \/ ClickCell(CopyClickCells)
    \/ CopySelected
    \/ \E id \in writes : WriteResolved(id)
    \/ \E id \in writes : WriteRejected(id)

InitCopy == InitUI({NoParams}, CopyViews, TRUE)

SpecCopy == InitCopy /\ [][NextCopy]_vars

\* the first render, for every query string
InitConfig == InitUI(ConfigSearches, CopyViews, FALSE) /\ hasClipboard

SpecConfig == InitConfig /\ [][Render]_vars

----------------------------------------------------------------------------
(* Reference calendar, independent of the Date arithmetic above             *)

RealLeapYear(y) == IF y % 400 = 0 THEN TRUE ELSE IF y % 100 = 0 THEN FALSE
                   ELSE y % 4 = 0

\* days of month m (0-based) of year y
RealDaysInMonth(y, m) ==
    IF m = 1 THEN (IF RealLeapYear(y) THEN 29 ELSE 28)
    ELSE IF m \in {3, 5, 8, 10} THEN 30 ELSE 31

\* Zeller's congruence, turned to 0=Sunday..6=Saturday
RealWeekDay(y, m, d) ==
    LET mm == IF m < 2 THEN m + 13 ELSE m + 1
        yy == IF m < 2 THEN y - 1 ELSE y
        K == yy % 100
        J == yy \div 100
        h == (d + ((13 * (mm + 1)) \div 5) + K + (K \div 4) + (J \div 4) + 5 * J) % 7
    IN  (h + 6) % 7

\* months since year 0 of a valid date
MonthIndex(dt) == 12 * YearFromTime(dt.t) + MonthFromTime(dt.t)

Grid == cells(view, cfg.weekStart)
InMonthIdx(g) == {i \in 1..Len(g) : g[i].inMonth}

----------------------------------------------------------------------------
(* Claims                                                                   *)

\* C1: in every reachable view (any sequence of prevMonth/nextMonth/goToday,
\* either week start) the generated grid has exactly 42 cells: the leading
\* blanks and the days never exceed 42 and the trailing blanks pad up to 42.
C1_GridHas42Cells ==
    LET g == Grid
        lead == CHOOSE k \in 0..Len(g) :
                    (k = Len(g) \/ g[k + 1].inMonth) /\ \A i \in 1..k : ~g[i].inMonth
        n == Cardinality(InMonthIdx(g))
    IN  /\ Len(g) = 42
        /\ lead + n <= 42
        /\ \A i \in (lead + n + 1)..42 : ~g[i].inMonth

\* C1 witness: a 31-day month with 6 leading blanks (37 cells before padding)
\* reached by navigation.
C1_Witness ==
    /\ hist.op \in {"prevMonth", "nextMonth"}
    /\ InMonthIdx(Grid) = 7..37

\* C2 (as claimed): for every view month the cells with inMonth = true are as
\* many as the month really has days, they are contiguous and labelled
\* 1..daysInMonth in order, and every other cell is a blank with no date.
C2_InMonthCellsAreTheMonth ==
    view.nan \/
    LET g == Grid
        n == RealDaysInMonth(YearFromTime(view.t), MonthFromTime(view.t))
        idx == InMonthIdx(g)
    IN  /\ Cardinality(idx) = n
        /\ \E k \in 0..(Len(g) - n) :
              /\ idx = (k + 1)..(k + n)
              /\ \A j \in 1..n : g[k + j].label = String(j) /\ g[k + j].date # Null
        /\ \A i \in (1..Len(g)) \ idx : g[i].date = Null /\ g[i].label = <<>>

\* C3 (as claimed): for every view month the number of blanks before the
\* cell of day 1 is the weekday of day 1 of that month counted from the
\* configured first column (getDay, or (getDay + 6) mod 7 for Monday-first),
\* it is in 0..6, and day 1 sits under the header naming its weekday.
C3_LeadingBlanksAreWeekday ==
    view.nan \/
    LET g == Grid
        wd == RealWeekDay(YearFromTime(view.t), MonthFromTime(view.t), 1)
        off == IF cfg.weekStart = 1 THEN (wd + 6) % 7 ELSE wd
    IN  /\ off \in 0..6
        /\ \A i \in 1..off : ~g[i].inMonth
        /\ g[off + 1].inMonth
        /\ g[off + 1].label = <<"1">>
        /\ dowLabels(cfg.weekStart, <<"s", "h", "o", "r", "t">>)[off + 1]
              = baseShortSunFirst[wd + 1]

\* C4 (as claimed): a navigation shifts the view by exactly one month, keeps
\* it on day 1, and the opposite navigation then leads back to the view it
\* came from, also across a year boundary.
C4_NavIsInvertible ==
    /\ hist.op = "prevMonth" =>
          /\ ~view.nan /\ ~hist.view.nan
          /\ MonthIndex(view) = MonthIndex(hist.view) - 1
          /\ DateFromTime(view.t) = 1
          /\ nextMonth(view) = hist.view
    /\ hist.op = "nextMonth" =>
          /\ ~view.nan /\ ~hist.view.nan
          /\ MonthIndex(view) = MonthIndex(hist.view) + 1
          /\ DateFromTime(view.t) = 1
          /\ prevMonth(view) = hist.view

\* C5: whatever the view and the selection were, goToday leaves the view on
\* the first day of the current date's month and the selection on the
\* current date.
C5_GoTodayResets ==
    hist.op = "goToday" =>
        /\ selected = hist.now
        /\ ~view.nan
        /\ YearFromTime(view.t) = YearFromTime(hist.now.t)
        /\ MonthFromTime(view.t) = MonthFromTime(hist.now.t)
        /\ DateFromTime(view.t) = 1

\* C5 witness: goToday ran in a state whose view was another month and whose
\* selection was another day, after the clock had moved on.
C5_Witness ==
    /\ hist.op = "goToday"
    /\ hist.now # today
    /\ hist.view # view
    /\ hist.selected # selected
    /\ hist.selected # today

\* C6: a click on an in-month cell selects exactly that cell's date and
\* leaves the view alone; a click on a blank cell changes neither.
C6_ClickSelectsCell ==
    hist.op = "click" =>
        LET c == cells(hist.view, cfg.weekStart)[hist.idx + 1]
        IN  /\ view = hist.view
            /\ c.inMonth =>
                  /\ c.date # Null
                  /\ selected = Val(c.date)
                  /\ c.label = String(DateFromTime(selected.t))
            /\ ~c.inMonth => selected = hist.selected

\* C6 witness: a click on an in-month cell that changed the selection, in a
\* view that is not the month of the old selection.
C6_Witness ==
    /\ hist.op = "click"
    /\ cells(hist.view, cfg.weekStart)[hist.idx + 1].inMonth
    /\ selected # hist.selected
    /\ MonthFromTime(hist.selected.t) # MonthFromTime(selected.t)

\* C7 (as claimed): the text formatYMD gives for the selected date has the
\* form YYYY-MM-DD, each field zero-padded and equal to the date's year,
\* 1-based month and day.
C7_FormatIsYYYYMMDD ==
    LET s == formatYMD(selected)
    IN  /\ Len(s) = 10
        /\ s[5] = "-" /\ s[8] = "-"
        /\ \A i \in {1, 2, 3, 4, 6, 7, 9, 10} : IsDigit(s[i])
        /\ DigitsValue(SubSeq(s, 1, 4)) = YearFromTime(selected.t)
        /\ DigitsValue(SubSeq(s, 6, 7)) = MonthFromTime(selected.t) + 1
        /\ DigitsValue(SubSeq(s, 9, 10)) = DateFromTime(selected.t)

\* a query parameter that is absent, empty or white space
Missing(raw) == raw = Null \/ trim(Val(raw)) = <<>>

\* C8 (as claimed): whatever the query parameters are, the width is a number
\* in 220..420 (a numeric ?w clamped, a missing or non-numeric ?w giving
\* 280), the week starts on Monday exactly for week=mon in any case, and the
\* day labels are the narrow ones for dow=narrow and the short ones otherwise.
C8_ConfigIsDocumented ==
    cfg.rendered =>
        /\ ~IsNaN(cfg.width)
        /\ Val(cfg.width) \in 220..420
        /\ (Missing(search.w) \/ IsNaN(ToNumber(Val(search.w))))
              => Val(cfg.width) = 280
        /\ (~Missing(search.w) /\ ~IsNaN(ToNumber(Val(search.w)))) =>
              LET n == Val(ToNumber(Val(search.w)))
              IN  Val(cfg.width) = IF n < 220 THEN 220 ELSE IF n > 420 THEN 420 ELSE n
        /\ cfg.weekStart = 1 <=>
              (~Missing(search.week)
                 /\ toLowerCase(trim(Val(search.week))) = <<"m", "o", "n">>)
        /\ cfg.weekStart \in {0, 1}
        /\ LET narrow == ~Missing(search.dow)
                           /\ toLowerCase(trim(Val(search.dow)))
                                = <<"n", "a", "r", "r", "o", "w">>
               labels == dowLabels(cfg.weekStart, cfg.dowStyle)
           IN  labels = IF narrow
                        THEN (IF cfg.weekStart = 1
                              THEN <<"M", "T", "W", "T", "F", "S", "S">>
                              ELSE <<"S", "M", "T", "W", "T", "F", "S">>)
                        ELSE (IF cfg.weekStart = 1
                              THEN <<"Mon", "Tue", "Wed", "Thu", "Fri", "Sat", "Sun">>
                              ELSE <<"Sun", "Mon", "Tue", "Wed", "Thu", "Fri", "Sat">>)

CopyOps == {"copy", "writeResolved", "writeRejected"}

\* C9 (as claimed): every copy action ends with the YYYY-MM-DD text of the
\* date selected at the click on the clipboard, by the clipboard API or, when
\* that is missing or fails, by the textarea fallback; the fallback runs only
\* then, the textarea is gone afterwards, and neither the view nor the
\* selection changes.
C9_EveryCopyCopies ==
    /\ textareas = 0
    /\ hist.op \in CopyOps =>
          /\ view = hist.view /\ selected = hist.selected
          /\ LET c == copies[hist.idx]
             IN  c.state # "pending" =>
                    /\ clipboard = <<formatYMD(c.sel)>>
                    /\ (c.state = "fallback") <=> (~hasClipboard \/ c.rejected)

\* C9 (amended): every copy action tries to copy the text formatYMD gives
\* for the date selected at the click: the clipboard API's write puts it on
\* the clipboard when it succeeds; when navigator.clipboard is missing or
\* the write is rejected, and only then, the textarea fallback runs, and
\* puts the same text on the clipboard if execCommand reports success and
\* leaves the clipboard as it was if it reports failure.  The textarea is
\* gone afterwards, and neither the view nor the selection changes.
C9_CopyOutcome ==
    /\ textareas = 0
    /\ \A id \in 1..Len(copies) :
          LET c == copies[id]
          IN  /\ (c.state = "pending") <=> (id \in writes)
              /\ (c.state = "api") => (hasClipboard /\ ~c.rejected /\ c.copied)
              /\ (c.state = "fallback") => (~hasClipboard \/ c.rejected)
    /\ hist.op \in CopyOps =>
          /\ view = hist.view /\ selected = hist.selected
          /\ LET c == copies[hist.idx]
             IN  /\ (hist.op = "copy" /\ hasClipboard) =>
                        (c.state = "pending" /\ clipboard = hist.clipboard)
                 /\ (hist.op = "copy" /\ ~hasClipboard) => c.state = "fallback"
                 /\ hist.op = "writeResolved" => c.state = "api"
                 /\ hist.op = "writeRejected" => c.state = "fallback"
                 /\ c.state # "pending" =>
                        clipboard = IF c.copied THEN <<formatYMD(c.sel)>>
                                    ELSE hist.clipboard

\* C9 witness: a write was rejected after the selection had changed, and the
\* fallback put the text of the date selected at the click on the clipboard.
C9_Witness ==
    /\ hist.op = "writeRejected"
    /\ copies[hist.idx].copied
    /\ copies[hist.idx].sel # selected
    /\ clipboard = <<formatYMD(copies[hist.idx].sel)>>
    /\ clipboard # hist.clipboard

\* C10 (as claimed): at most one copy action is in flight at a time, and once
\* no write is pending the clipboard holds the text of the last Copy click
\* whenever the copies made have all succeeded.
C10_OneCopyInFlight ==
    /\ Cardinality(writes) <= 1
    /\ (writes = {} /\ copies # <<>> /\ \A i \in 1..Len(copies) : copies[i].copied)
          => clipboard = <<copies[Len(copies)].text>>

\* C10, second part alone: with every copy made succeeding, the clipboard
\* ends with the text of the last Copy click.
C10_LastCopyWins ==
    (writes = {} /\ copies # <<>> /\ \A i \in 1..Len(copies) : copies[i].copied)
        => clipboard = <<copies[Len(copies)].text>>

====
